---- MODULE Spec2Model ----
(***************************************************************************)
(* Verification model of the swarm control core of wideyard/multiagent_swarms: *)
(*   - the greedy goal assigner (LLMAirSimSwarmController._assign_nearest_unique, *)
(*     fly_to_goals.assign_nearest_unique),                                  *)
(*   - the potential-field controller (APFSwarmController.get_control) and  *)
(*     the navigation tick of start_mission that clips, damps and dispatches, *)
(*   - the waypoint sampler (PointDistributor.generate_points) and          *)
(*     generate_waypoints,                                                  *)
(*   - the mission sequence (start_mission, _hovering_control_loop,         *)
(*     stop_mission).                                                       *)
(* Python indices are 0-based; sequences here are 1-based, so agent i of the *)
(* source is agent i+1 here and goal index g is g+1.                        *)
(***************************************************************************)
EXTENDS Integers, Sequences, FiniteSets, TLC

VARIABLES
    \* ---- goal assigner (one record per call of _assign_nearest_unique)
    current_positions,  \* positions polled at the start of the call, one per drone
    goal_positions,     \* self.goal_positions: the goal points
    acall,              \* acall[c]: the locals of call c
    out_goals,          \* what distribute_goals returned, <<>> before the call
    \* ---- potential-field controller and one navigation tick
    poses,              \* get_control's argument: the polled positions, one per drone
    goals,              \* apf_controller.goals: the assigned goal of each drone, <<>> for None
    params,             \* apf_controller's p_cohesion, p_separation, max_vel, min_dist
    pushes,             \* pushes[i]: the sum of the np.random.randn(3) * 0.1 draws agent i got
    control_vels,       \* get_control's return value
    sent_vels,          \* the velocities handed to swarm.set_velocities
    nav_pc,             \* where the tick stands: "polled", "controlled", "sent"
    \* ---- waypoint generation (generate_waypoints, PointDistributor.generate_points)
    num_points,         \* the requested number of waypoints
    gw_path,            \* "circle": the description names a circle; "sdf": the SDF path
    sdf_ok,             \* FALSE: the surface function raises on the candidate batch
    zspan,              \* bounds_max[2] - bounds_min[2], in steps of 0.5
    n_points,           \* len(points): the candidates currently kept
    s_pc,               \* where generate_waypoints / generate_points stands
    via,                \* the path generate_points returned by
    out_len,            \* the number of points generate_points returned
    gw_result,          \* what generate_waypoints returned: "none" while it runs
    goal_len,           \* len(self.goal_positions), -1 for None
    \* ---- mission (start_mission, _hovering_control_loop, stop_mission)
    m_pc,               \* where start_mission stands
    launched,           \* the number of drones start_mission has launched
    launch_log,         \* the takeoff commands and joins, in the order made
    assignments,        \* start_mission's assignments (drone -> goal index)
    nav_goals,          \* start_mission's assigned_goals (one point per drone)
    elapsed,            \* time.time() - t_start, in periods of dt
    nav_exit,           \* why the navigation loop was left: "arrived" or "timeout"
    start_result,       \* what start_mission returned: "none" while it runs
    is_running,         \* self.is_running
    control_thread,     \* self.control_thread: "none" or "started"
    h_pc,               \* where the hover thread stands
    st_pc,              \* where the external stop_mission call stands
    log,                \* the kinds of vehicle commands issued, in order (repeats merged)
    stop_ticks,         \* loop iterations that sent motion commands after stop_mission
                        \* cleared is_running (counted up to 2)
    hold_targets,       \* the targets of the latest set_positions call, one per drone served
    \* ---- the navigation loop of start_mission, step by step and drone by drone
    t_pc,               \* the step the loop is about to make
    tick,               \* the number of the current iteration, from 1
    steps,              \* the steps made so far in the current iteration
    poll_failed,        \* the drones whose update_position failed in this iteration
    cmd_sent,           \* the drones set_velocities called set_velocity for in this iteration
    cmd_failed,         \* the drones whose set_velocity failed in this iteration
    ever_failed,        \* the drones whose set_velocity failed in an earlier iteration
    dispatched,         \* the number of set_velocities calls made so far
    poll_stamp,         \* the value of dispatched when the positions in use were polled
    loop_exit,          \* how the loop ended: "none", "arrived", "timeout" or "error"
    \* ---- a session of prepare_mission, start_mission and stop_mission calls
    c_pc,               \* where the calling thread stands
    wp_set,             \* self.goal_positions: 0 for None, k for the k-th waypoint set made
    wp_made,            \* the number of waypoint sets made so far
    last_prepare,       \* what the latest prepare_mission returned, "none" before the first
    flown,              \* the waypoint set the latest start_mission took its goals from
    sess_running,       \* self.is_running
    sess_thread,        \* self.control_thread: 0 for None, else the number of the thread
    hover,              \* hover[t]: where hover thread t stands
    starts,             \* the number of start_mission calls that started a hover thread
    start_ret,          \* the latest start_mission since the latest prepare_mission
    issued,             \* TRUE when that start_mission issued vehicle commands
    mission_open,       \* TRUE from start_mission to the end of stop_mission
    \* ---- one call of _fallback_circle_points, lengths in units of 0.25
    bounds_min,         \* self.bounds_min, <<x, y, z>>
    bounds_max,         \* self.bounds_max, <<x, y, z>>
    circle_count,       \* num_points of the call
    circle_points,      \* the returned rows, <<x, y, z>> in 1/1000 of the unit
    f_pc                \* "off", "called" or "returned"

avars == <<current_positions, goal_positions, acall, out_goals>>

cvars == <<poses, goals, params, pushes, control_vels, sent_vels, nav_pc>>

svars == <<num_points, gw_path, sdf_ok, zspan, n_points, s_pc, via, out_len, gw_result,
          goal_len>>

mvars == <<m_pc, launched, launch_log, assignments, nav_goals, elapsed, nav_exit,
          start_result, is_running, control_thread, h_pc, st_pc, log,
          stop_ticks, hold_targets>>

nvars == <<t_pc, tick, steps, poll_failed, cmd_sent, cmd_failed, ever_failed, dispatched,
          poll_stamp, loop_exit>>

xvars == <<c_pc, wp_set, wp_made, last_prepare, flown, sess_running, sess_thread, hover,
          starts, start_ret, issued, mission_open>>

fvars == <<bounds_min, bounds_max, circle_count, circle_points, f_pc>>

vars == <<current_positions, goal_positions, acall, out_goals,
          poses, goals, params, pushes, control_vels, sent_vels, nav_pc,
          num_points, gw_path, sdf_ok, zspan, n_points, s_pc, via, out_len, gw_result,
          goal_len,
          m_pc, launched, launch_log, assignments, nav_goals, elapsed, nav_exit,
          start_result, is_running, control_thread, h_pc, st_pc, log,
          stop_ticks, hold_targets,
          t_pc, tick, steps, poll_failed, cmd_sent, cmd_failed, ever_failed, dispatched,
          poll_stamp, loop_exit,
          c_pc, wp_set, wp_made, last_prepare, flown, sess_running, sess_thread, hover,
          starts, start_ret, issued, mission_open,
          bounds_min, bounds_max, circle_count, circle_points, f_pc>>

(***************************************************************************)
(* Bounds of the model.                                                    *)
(***************************************************************************)
MaxAgents == 3
MaxGoals == 3
GridMax == 2
NavAgents == 2
PosMax == 1
\* fixed-point resolution: a length of 1.0 is Scale units
Scale == 100
MaxCount == 3
\* the number of candidates drawn (num_samples, 10000 in the source), scaled down
NumSamples == 7
\* the largest extent, in steps of 0.5, of the probe points found near the surface
MaxExtent == 2
MissionDrones == 3
MissionGoals == 3
\* max_time / dt (120 s / 0.5 s = 240 periods in the source), scaled down
MaxTime == 3
MaxStarts == 2
MaxShapes == 2
ProbeMax == 1
DampAgents == 3
DampSpan == 3

(***************************************************************************)
(* Generic helpers.                                                        *)
(***************************************************************************)
Range(s) == {s[i] : i \in DOMAIN s}

SetMin(S) == CHOOSE x \in S : \A y \in S : x <= y

SeqsUpTo(S, lo, hi) == UNION {[1..k -> S] : k \in lo..hi}

(***************************************************************************)
(* Goal assigner.                                                          *)
(* Agents and goals are points <<x, y, z>> on the line y = 0, z = 0 of an  *)
(* integer grid: the assigner reads positions only through the matrix of   *)
(* planar distances, and collinear points give every ordering and tie of   *)
(* that matrix that matters to the greedy choice.                          *)
(***************************************************************************)
AssignPoints == {<<x, 0, 0>> : x \in 0..GridMax}

\* np.linalg.norm(a[:, None, :2] - b[None, :, :2], axis=2): the planar (XY)
\* distance.  The assigner only compares distances, and the square root is
\* monotone, so the squared distance is kept.
DistXY2(p, q) == (p[1] - q[1]) * (p[1] - q[1]) + (p[2] - q[2]) * (p[2] - q[2])

Dists(pos, gp) ==
    [di \in 1..Len(pos) |-> [g \in 1..Len(gp) |-> DistXY2(pos[di], gp[g])]]

\* dists.min(axis=1); the caller guarantees at least one goal (with none numpy raises)
MinDists(pos, gp) ==
    [di \in 1..Len(pos) |-> SetMin({DistXY2(pos[di], gp[g]) : g \in 1..Len(gp)})]

\* a nearest-first processing order, used to check that the farthest-first order matters
ArgsortFirstAscending(key, S) ==
    CHOOSE i \in S : \A j \in S : key[i] < key[j] \/ (key[i] = key[j] /\ i <= j)

\* The tie rule of np.argsort(-min_dists): for the fleet sizes flown (at most 16
\* entries) numpy's default sort is an insertion sort, which keeps equal keys in
\* index order.
ArgsortFirst(key, S) ==
    CHOOSE i \in S : \A j \in S : key[i] > key[j] \/ (key[i] = key[j] /\ i <= j)

RECURSIVE ArgsortDesc(_, _)
ArgsortDesc(key, S) ==
    IF S = {} THEN <<>>
    ELSE LET i == ArgsortFirst(key, S)
         IN  <<i>> \o ArgsortDesc(key, S \ {i})

\* sorted(choices, key=lambda g: float(dists[di, g])): Python's sort is stable, so
\* equally distant goals stay in index order.
RECURSIVE SortedGoals(_, _)
SortedGoals(row, S) ==
    IF S = {} THEN <<>>
    ELSE LET g == CHOOSE a \in S : \A b \in S : row[a] < row[b] \/ (row[a] = row[b] /\ a <= b)
         IN  <<g>> \o SortedGoals(row, S \ {g})

\* the first goal of sorted_goals that is not in assigned_goals, 0 for None
FirstUnassigned(sorted_goals, assigned_goals) ==
    LET free == {k \in 1..Len(sorted_goals) : sorted_goals[k] \notin assigned_goals}
    IN  IF free = {} THEN 0 ELSE sorted_goals[SetMin(free)]

\* a pick that ignores earlier claims, used to check that uniqueness rests on the
\* assigned_goals test
PickIgnoringClaims(sorted_goals, assigned_goals, allow_duplicates) == sorted_goals[1]

\* the body of the for loop: the goal picked for one drone
Pick(sorted_goals, assigned_goals, allow_duplicates) ==
    IF allow_duplicates THEN sorted_goals[1]
    ELSE LET g == FirstUnassigned(sorted_goals, assigned_goals)
         IN  IF g = 0 THEN sorted_goals[1] ELSE g

AssignIdle ==
    [pc |-> "idle", drone_order |-> <<>>, k |-> 0, allow_duplicates |-> FALSE,
     assigned_goals |-> {}, assignments |-> <<>>]

Calls == 1..2

\* the goal assigner is not running
AssignOff ==
    /\ current_positions = <<>>
    /\ goal_positions = <<>>
    /\ acall = [c \in Calls |-> AssignIdle]
    /\ out_goals = <<>>

\* the controller is not running
ControlOff ==
    /\ poses = <<>>
    /\ goals = <<>>
    /\ params = <<>>
    /\ pushes = <<>>
    /\ control_vels = <<>>
    /\ sent_vels = <<>>
    /\ nav_pc = "off"

\* no waypoint generation is running
SamplerOff ==
    /\ num_points = 0
    /\ gw_path = "none"
    /\ sdf_ok = TRUE
    /\ zspan = 0
    /\ n_points = 0
    /\ s_pc = "off"
    /\ via = "none"
    /\ out_len = 0
    /\ gw_result = "none"

\* no mission is running
MissionOff ==
    /\ m_pc = "off"
    /\ launched = 0
    /\ launch_log = <<>>
    /\ assignments = <<>>
    /\ nav_goals = <<>>
    /\ elapsed = 0
    /\ nav_exit = "none"
    /\ start_result = "none"
    /\ is_running = FALSE
    /\ control_thread = "none"
    /\ h_pc = "none"
    /\ st_pc = "off"
    /\ log = <<>>
    /\ stop_ticks = 0
    /\ hold_targets = <<>>

\* no call of _fallback_circle_points is followed
CircleOff ==
    /\ f_pc = "off"
    /\ bounds_min = <<0, 0, 0>>
    /\ bounds_max = <<0, 0, 0>>
    /\ circle_count = 0
    /\ circle_points = <<>>

\* no session is open
SessionOff ==
    /\ c_pc = "off"
    /\ wp_set = 0
    /\ wp_made = 0
    /\ last_prepare = "none"
    /\ flown = 0
    /\ sess_running = FALSE
    /\ sess_thread = 0
    /\ hover = <<>>
    /\ starts = 0
    /\ start_ret = "none"
    /\ issued = FALSE
    /\ mission_open = FALSE

\* the step-by-step navigation loop is not running
NavLoopOff ==
    /\ t_pc = "off"
    /\ tick = 0
    /\ steps = <<>>
    /\ poll_failed = {}
    /\ cmd_sent = {}
    /\ cmd_failed = {}
    /\ ever_failed = {}
    /\ dispatched = 0
    /\ poll_stamp = 0
    /\ loop_exit = "none"

InitAssign ==
    /\ SessionOff
    /\ CircleOff
    /\ NavLoopOff
    /\ ControlOff
    /\ SamplerOff
    /\ goal_len = -1
    /\ MissionOff
    /\ current_positions \in SeqsUpTo(AssignPoints, 1, MaxAgents)
    /\ goal_positions \in SeqsUpTo(AssignPoints, 0, MaxGoals)
    /\ acall = [c \in Calls |-> AssignIdle]
    /\ out_goals = <<>>

\* The second call starts when the first has returned or raised.
MayEnter(c) ==
    /\ acall[c].pc = "idle"
    /\ \A b \in Calls : b < c => acall[b].pc \in {"done", "raised"}

\* Entry of _assign_nearest_unique up to the for loop: the distance matrix, the
\* processing order and allow_duplicates.  With no goal, dists.min(axis=1) raises.
AssignEnter(c) ==
    /\ MayEnter(c)
    /\ IF Len(goal_positions) = 0
       THEN acall' = [acall EXCEPT ![c].pc = "raised"]
       ELSE acall' = [acall EXCEPT
                ![c].pc = IF Len(current_positions) = 0 THEN "done" ELSE "loop",
                ![c].drone_order =
                    ArgsortDesc(MinDists(current_positions, goal_positions),
                                1..Len(current_positions)),
                ![c].allow_duplicates = Len(goal_positions) < Len(current_positions)]
    /\ UNCHANGED <<current_positions, goal_positions, out_goals>>
    /\ UNCHANGED <<cvars, svars, mvars, nvars, xvars, fvars>>

\* an iteration that breaks a tie between equally near goals arbitrarily, used to
\* check that determinism rests on the stable sort of the goals
AssignStepAnyTie(c) ==
    /\ acall[c].pc = "loop"
    /\ LET a == acall[c]
           di == a.drone_order[a.k + 1]
           row == Dists(current_positions, goal_positions)[di]
           sorted_goals == SortedGoals(row, 1..Len(goal_positions))
           first == Pick(sorted_goals, a.assigned_goals, a.allow_duplicates)
       IN  \E pick \in {g \in 1..Len(goal_positions) :
                           /\ row[g] = row[first]
                           /\ (g \in a.assigned_goals <=> first \in a.assigned_goals)} :
             acall' = [acall EXCEPT
                ![c].k = a.k + 1,
                ![c].assigned_goals = a.assigned_goals \cup {pick},
                ![c].assignments = [d \in DOMAIN a.assignments \cup {di} |->
                                       IF d = di THEN pick ELSE a.assignments[d]],
                ![c].pc = IF a.k + 1 = Len(a.drone_order) THEN "done" ELSE "loop"]
    /\ UNCHANGED <<current_positions, goal_positions, out_goals>>
    /\ UNCHANGED <<cvars, svars, mvars, nvars, xvars, fvars>>

\* One iteration of "for di in drone_order", and the return after the last one.
AssignStep(c) ==
    /\ acall[c].pc = "loop"
    /\ LET a == acall[c]
           di == a.drone_order[a.k + 1]
           sorted_goals == SortedGoals(Dists(current_positions, goal_positions)[di],
                                       1..Len(goal_positions))
           pick == Pick(sorted_goals, a.assigned_goals, a.allow_duplicates)
       IN  acall' = [acall EXCEPT
                ![c].k = a.k + 1,
                ![c].assigned_goals = a.assigned_goals \cup {pick},
                ![c].assignments = [d \in DOMAIN a.assignments \cup {di} |->
                                       IF d = di THEN pick ELSE a.assignments[d]],
                ![c].pc = IF a.k + 1 = Len(a.drone_order) THEN "done" ELSE "loop"]
    /\ UNCHANGED <<current_positions, goal_positions, out_goals>>
    /\ UNCHANGED <<cvars, svars, mvars, nvars, xvars, fvars>>

\* cdist(current_poses, goal_poses), squared
CDistSq(p, q) ==
    (p[1] - q[1]) * (p[1] - q[1]) + (p[2] - q[2]) * (p[2] - q[2]) + (p[3] - q[3]) * (p[3] - q[3])

\* The greedy loop of distribute_goals from drone i on: the nearest goal whose column
\* is not yet inf (np.argmin takes the first of equals), or the drone's own position
\* when every column is.
RECURSIVE DistributeLoop(_, _, _, _)
DistributeLoop(cur, gp, i, used) ==
    IF i > Len(cur) THEN <<>>
    ELSE LET free == (1..Len(gp)) \ used
         IN  IF free # {}
             THEN LET ind == CHOOSE g \in free : \A h \in free :
                                \/ CDistSq(cur[i], gp[g]) < CDistSq(cur[i], gp[h])
                                \/ (CDistSq(cur[i], gp[g]) = CDistSq(cur[i], gp[h]) /\ g <= h)
                  IN  <<gp[ind]>> \o DistributeLoop(cur, gp, i + 1, used \cup {ind})
             ELSE <<cur[i]>> \o DistributeLoop(cur, gp, i + 1, used)

\* APFSwarmController.distribute_goals: with no goal row it returns
\* np.zeros_like(current_poses)
DistributeGoalsResult(cur, gp) ==
    IF Len(gp) = 0 THEN [i \in 1..Len(cur) |-> <<0, 0, 0>>]
    ELSE DistributeLoop(cur, gp, 1, {})

\* distribute_goals(current_positions, goal_positions), called once the calls of
\* _assign_nearest_unique are over
DistributeGoals ==
    /\ out_goals = <<>>
    /\ \A c \in Calls : acall[c].pc \in {"done", "raised"}
    /\ out_goals' = DistributeGoalsResult(current_positions, goal_positions)
    /\ UNCHANGED <<current_positions, goal_positions, acall>>
    /\ UNCHANGED <<cvars, svars, mvars, nvars, xvars, fvars>>

NextAssign == (\E c \in Calls : AssignEnter(c) \/ AssignStep(c)) \/ DistributeGoals

SpecAssign == InitAssign /\ [][NextAssign]_vars

(***************************************************************************)
(* Properties of the goal assigner.                                        *)
(***************************************************************************)
NAgents == Len(current_positions)
NGoals == Len(goal_positions)
Returned(c) == acall[c].pc = "done"
GoalsUsed(c) == {acall[c].assignments[d] : d \in DOMAIN acall[c].assignments}
NearestGoal(di) ==
    SortedGoals(Dists(current_positions, goal_positions)[di], 1..NGoals)[1]
DistinctGoalPoints ==
    \A g1, g2 \in 1..NGoals : g1 # g2 => goal_positions[g1] # goal_positions[g2]

\* C16: with an empty goal set no assignment entry point returns a result: neither
\* _assign_nearest_unique returns a mapping nor distribute_goals an array of goals.
C16_ZeroGoalsIsError ==
    NGoals = 0 =>
        /\ \A c \in Calls : ~Returned(c)
        /\ out_goals = <<>>

\* C1: with at least as many goals as agents, the returned mapping gives every
\* agent exactly one goal index, no two agents the same one, and with as many
\* goals as agents every goal index is used exactly once.
C1_UniqueWhenEnoughGoals ==
    \A c \in Calls :
        (Returned(c) /\ NGoals >= NAgents) =>
            /\ DOMAIN acall[c].assignments = 1..NAgents
            /\ \A d \in 1..NAgents : acall[c].assignments[d] \in 1..NGoals
            /\ \A d1, d2 \in 1..NAgents :
                   d1 # d2 => acall[c].assignments[d1] # acall[c].assignments[d2]
            /\ (NGoals = NAgents => GoalsUsed(c) = 1..NGoals)

\* a call returned for as many goals as agents where two agents have the same
\* nearest goal, so that one of them had to take another goal
C1_Witness ==
    /\ Returned(1)
    /\ NGoals = NAgents
    /\ NAgents >= 3
    /\ DistinctGoalPoints
    /\ \E d1, d2 \in 1..NAgents : d1 # d2 /\ NearestGoal(d1) = NearestGoal(d2)

\* C2: with fewer goals than agents the returned mapping still uses every goal
\* index and has at most n - m duplicate goal usages.
C2_AllGoalsCoveredWhenFewer ==
    \A c \in Calls :
        (Returned(c) /\ NGoals < NAgents) =>
            /\ GoalsUsed(c) = 1..NGoals
            /\ NAgents - Cardinality(GoalsUsed(c)) <= NAgents - NGoals

\* C3: agents are processed in descending order of the distance to their own
\* nearest goal, and with at least as many goals as agents each processed agent
\* holds the goal nearest to it among those not claimed by the agents before it.
C3_FarthestFirstNearestFree ==
    \A c \in Calls :
        acall[c].pc \in {"loop", "done"} =>
            LET a == acall[c]
                md == MinDists(current_positions, goal_positions)
                D == Dists(current_positions, goal_positions)
                ClaimedBefore(k) == {a.assignments[a.drone_order[j]] : j \in 1..(k - 1)}
            IN  /\ Len(a.drone_order) = NAgents
                /\ Range(a.drone_order) = 1..NAgents
                /\ \A k1, k2 \in 1..NAgents :
                       k1 < k2 => md[a.drone_order[k1]] >= md[a.drone_order[k2]]
                /\ NGoals >= NAgents =>
                       \A k \in 1..a.k :
                           LET di == a.drone_order[k]
                           IN  /\ a.assignments[di] \notin ClaimedBefore(k)
                               /\ \A g \in (1..NGoals) \ ClaimedBefore(k) :
                                      D[di][a.assignments[di]] <= D[di][g]

\* a returned call where the processing order is not the index order and some
\* agent did not get its own nearest goal
C3_Witness ==
    /\ Returned(1)
    /\ NGoals >= NAgents
    /\ DistinctGoalPoints
    /\ acall[1].drone_order[1] # 1
    /\ \E d \in 1..NAgents : acall[1].assignments[d] # NearestGoal(d)

TDiv(a, b) == IF a >= 0 THEN a \div b ELSE -((-a) \div b)

VZero == <<0, 0, 0>>
VAdd(p, q) == <<p[1] + q[1], p[2] + q[2], p[3] + q[3]>>
VSub(p, q) == <<p[1] - q[1], p[2] - q[2], p[3] - q[3]>>
\* v * num / den
VMulDiv(v, num, den) == <<TDiv(v[1] * num, den), TDiv(v[2] * num, den), TDiv(v[3] * num, den)>>
MagSq(v) == v[1] * v[1] + v[2] * v[2] + v[3] * v[3]

RECURSIVE SqrtSearch(_, _, _)
SqrtSearch(n, lo, hi) ==
    IF lo >= hi THEN lo
    ELSE LET mid == (lo + hi) \div 2
         IN  IF mid * mid >= n THEN SqrtSearch(n, lo, mid) ELSE SqrtSearch(n, mid + 1, hi)

\* np.linalg.norm(v): the least grid value that is at least the length of v
Norm(v) == SqrtSearch(MagSq(v), 0, 40000)

\* "if norm > max_vel: v = v / norm * max_vel"
ClampTo(v, max_vel) ==
    IF MagSq(v) > max_vel * max_vel THEN VMulDiv(v, max_vel, Norm(v)) ELSE v

Max(a, b) == IF a >= b THEN a ELSE b
Min(a, b) == IF a <= b THEN a ELSE b

RECURSIVE VSum(_, _)
VSum(f, S) ==
    IF S = {} THEN VZero
    ELSE LET j == CHOOSE x \in S : TRUE IN VAdd(f[j], VSum(f, S \ {j}))

NavPoints == {<<x * Scale, 0, z * Scale>> : x \in 0..PosMax, z \in 0..1}

\* The gains and limits the repository runs the controller with: the constructor's
\* defaults, start_mission's (max_vel 2.0, min_dist 1.0), fly_to_goals' (2.0, 2.0),
\* and one more gain pair (a weak attraction with a strong repulsion).
ParamSets ==
    {[p_cohesion |-> 2 * Scale, p_separation |-> Scale, max_vel |-> Scale, min_dist |-> 2 * Scale],
     [p_cohesion |-> 2 * Scale, p_separation |-> Scale, max_vel |-> 2 * Scale, min_dist |-> Scale],
     [p_cohesion |-> 2 * Scale, p_separation |-> Scale, max_vel |-> 2 * Scale, min_dist |-> 2 * Scale],
     [p_cohesion |-> Scale \div 2, p_separation |-> 8 * Scale, max_vel |-> Scale, min_dist |-> Scale]}

\* values of np.random.randn(3) * 0.1: a typical draw and a far outlier
OutlierPush == <<3 * Scale, 0, -(3 * Scale)>>
PushSet == {<<Scale \div 10, -(Scale \div 10), Scale \div 20>>, OutlierPush}

Agents(ps) == 1..Len(ps)

\* the agents for which get_control draws random pushes: those with another agent
\* at the same point
Coincident(ps) == {i \in Agents(ps) : \E j \in Agents(ps) : j # i /\ ps[j] = ps[i]}

\* vel_cohesion[i] after the per-agent limit
VelCohesion(ps, gs, pr, i) ==
    ClampTo(VMulDiv(VSub(gs[i], ps[i]), pr.p_cohesion, Scale), pr.max_vel)

\* a repulsion applied at any distance, used to check that the fixed point rests on
\* the dist < min_dist test
RepulsionTermNoGuard(ps, pr, pu, i, j) ==
    LET diff == VSub(ps[i], ps[j])
        dist == Norm(diff)
    IN  IF MagSq(diff) = 0 THEN VZero
        ELSE VMulDiv(diff, (pr.min_dist - dist) * Scale, dist * dist)

\* what agent j adds to rep of agent i: (diff / dist) * (min_dist - dist) / dist
\* within min_dist; the random pushes of coincident agents are added in VelSeparation
RepulsionTerm(ps, pr, pu, i, j) ==
    LET diff == VSub(ps[i], ps[j])
        dist == Norm(diff)
    IN  IF MagSq(diff) = 0 THEN VZero
        ELSE IF MagSq(diff) < pr.min_dist * pr.min_dist
             THEN VMulDiv(diff, (pr.min_dist - dist) * Scale, dist * dist)
             ELSE VZero

\* sep_scale = max(0.2, min(1.0, dist_to_goal / 1.0))
SepScale(ps, gs, i) == Max(Scale \div 5, Min(Scale, Norm(VSub(gs[i], ps[i]))))

\* vel_separation[i] = p_separation * sep_scale * rep, with rep[2] *= 0.3
VelSeparation(ps, gs, pr, pu, i) ==
    LET terms == [j \in Agents(ps) \ {i} |-> RepulsionTerm(ps, pr, pu, i, j)]
        rep == VAdd(VSum(terms, Agents(ps) \ {i}),
                    IF i \in Coincident(ps) THEN pu[i] ELSE VZero)
        rep3 == <<rep[1], rep[2], TDiv(rep[3] * 3, 10)>>
    IN  VMulDiv(rep3, pr.p_separation * SepScale(ps, gs, i), Scale * Scale)

\* a get_control without the last clamp, used to check that the velocity limit
\* rests on it
ControlVelsUnclamped(ps, gs, pr, pu) ==
    IF gs = <<>> THEN [i \in Agents(ps) |-> VZero]
    ELSE [i \in Agents(ps) |->
             VAdd(VelCohesion(ps, gs, pr, i), VelSeparation(ps, gs, pr, pu, i))]

\* get_control(poses): control_vels
ControlVels(ps, gs, pr, pu) ==
    IF gs = <<>> THEN [i \in Agents(ps) |-> VZero]
    ELSE [i \in Agents(ps) |->
             ClampTo(VAdd(VelCohesion(ps, gs, pr, i), VelSeparation(ps, gs, pr, pu, i)),
                     pr.max_vel)]

(***************************************************************************)
(* One navigation tick of start_mission after the positions are polled.    *)
(***************************************************************************)
\* dt = 0.5
NavDt == Scale \div 2

\* "Clip velocities to max"
ClipVels(vels, max_vel) == [i \in DOMAIN vels |-> ClampTo(vels[i], max_vel)]

\* pred_pos = current_positions + vels * dt
PredPos(ps, vels) == [i \in DOMAIN ps |-> VAdd(ps[i], VMulDiv(vels[i], NavDt, Scale))]

\* max(0.5, apf_controller.min_dist)
ConflictThreshold(pr) == Max(Scale \div 2, pr.min_dist)

\* the agents of the pairs whose predicted planar distance is below the threshold
Affected(ps, vels, pr) ==
    LET pred == PredPos(ps, vels)
        thr == ConflictThreshold(pr)
    IN  {i \in DOMAIN ps : \E j \in DOMAIN ps :
             j # i /\ DistXY2(pred[i], pred[j]) < thr * thr}

\* a damping that halves an agent's velocity once for every agent it conflicts with,
\* used to check that several conflicts of one agent damp it once
DampedPerPair(ps, vels, pr) ==
    LET pred == PredPos(ps, vels)
        thr == ConflictThreshold(pr)
        halvings(i) == Cardinality({j \in DOMAIN ps :
                           j # i /\ DistXY2(pred[i], pred[j]) < thr * thr})
    IN  [i \in DOMAIN vels |-> VMulDiv(vels[i], 1, 2 ^ halvings(i))]

\* vels[idx] = 0.5 * vels[idx] for every affected agent
Damped(ps, vels, pr) ==
    [i \in DOMAIN vels |->
        IF i \in Affected(ps, vels, pr) THEN VMulDiv(vels[i], 1, 2) ELSE vels[i]]

InitControl ==
    /\ SessionOff
    /\ CircleOff
    /\ NavLoopOff
    /\ AssignOff
    /\ SamplerOff
    /\ goal_len = -1
    /\ MissionOff
    /\ poses \in [1..NavAgents -> NavPoints]
    /\ goals \in [1..NavAgents -> NavPoints] \cup {<<>>}
    /\ params \in ParamSets
    /\ pushes = <<>>
    /\ control_vels = <<>>
    /\ sent_vels = <<>>
    /\ nav_pc = "polled"

\* vels = self.apf_controller.get_control(current_positions)
GetControl ==
    /\ nav_pc = "polled"
    /\ \E pu \in [Coincident(poses) -> PushSet] :
          /\ pushes' = pu
          /\ control_vels' = ControlVels(poses, goals, params, pu)
    /\ nav_pc' = "controlled"
    /\ UNCHANGED <<poses, goals, params, sent_vels>>
    /\ UNCHANGED <<avars, svars, mvars, nvars, xvars, fvars>>

\* clip, predictive collision check, self.swarm.set_velocities(vels, duration=dt)
ClipDampDispatch ==
    /\ nav_pc = "controlled"
    /\ sent_vels' = Damped(poses, ClipVels(control_vels, params.max_vel), params)
    /\ nav_pc' = "sent"
    /\ UNCHANGED <<poses, goals, params, pushes, control_vels>>
    /\ UNCHANGED <<avars, svars, mvars, nvars, xvars, fvars>>

\* the controller settings of fly_to_goals.main: min_dist = 2.0, max_vel = 2.0
FlyToGoalsParams ==
    [p_cohesion |-> 2 * Scale, p_separation |-> Scale, max_vel |-> 2 * Scale, min_dist |-> 2 * Scale]

\* The tick of fly_to_goals.main: clip, then set_velocities(vels, duration=dt).
ClipDispatch ==
    /\ nav_pc = "controlled"
    /\ params = FlyToGoalsParams
    /\ sent_vels' = ClipVels(control_vels, params.max_vel)
    /\ nav_pc' = "sent"
    /\ UNCHANGED <<poses, goals, params, pushes, control_vels>>
    /\ UNCHANGED <<avars, svars, mvars, nvars, xvars, fvars>>

NextControl == GetControl \/ ClipDampDispatch \/ ClipDispatch

SpecControl == InitControl /\ [][NextControl]_vars

(***************************************************************************)
(* Properties of the controller.                                           *)
(***************************************************************************)
WithinMaxVel(v) == MagSq(v) <= params.max_vel * params.max_vel

\* C18: the velocities dispatched by a navigation tick are the clipped velocities
\* with, for every pair of agents predicted less than max(0.5, min_dist) apart one
\* tick ahead, the velocities of both agents halved.
C18_PredictiveCheckApplied ==
    nav_pc = "sent" =>
        LET clipped == ClipVels(control_vels, params.max_vel)
            pred == PredPos(poses, clipped)
            thr == ConflictThreshold(params)
        IN  \A i, j \in DOMAIN poses :
                (i # j /\ MagSq(VSub(pred[i], pred[j])) < thr * thr) =>
                    /\ sent_vels[i] = VMulDiv(clipped[i], 1, 2)
                    /\ sent_vels[j] = VMulDiv(clipped[j], 1, 2)

\* C5: every velocity returned by get_control, and every velocity dispatched by
\* the navigation tick, has magnitude at most max_vel.
C5_VelocityBounded ==
    /\ nav_pc \in {"controlled", "sent"} =>
           \A i \in DOMAIN control_vels : WithinMaxVel(control_vels[i])
    /\ nav_pc = "sent" =>
           \A i \in DOMAIN sent_vels : WithinMaxVel(sent_vels[i])

\* a tick that dispatched after coincident agents drew the outlier push, so that
\* the velocity before the last clamp was above max_vel
C5_Witness ==
    /\ nav_pc = "sent"
    /\ goals # <<>>
    /\ \E i \in DOMAIN pushes : pushes[i] = OutlierPush
    /\ \E i \in DOMAIN poses :
           ~WithinMaxVel(ControlVelsUnclamped(poses, goals, params, pushes)[i])

AllAtGoal == goals # <<>> /\ \A i \in DOMAIN poses : poses[i] = goals[i]
NoneWithinMinDist ==
    \A i, j \in DOMAIN poses :
        i # j => MagSq(VSub(poses[i], poses[j])) >= params.min_dist * params.min_dist

\* C6: with every agent exactly at its goal and no other agent within min_dist of
\* it, get_control returns the zero velocity for every agent.
C6_ZeroAtGoals ==
    (nav_pc \in {"controlled", "sent"} /\ AllAtGoal /\ NoneWithinMinDist) =>
        \A i \in DOMAIN control_vels : control_vels[i] = VZero

\* get_control has returned for agents that are at their goals, apart from each
\* other by min_dist or more, under gains that attract and repel
C6_Witness ==
    /\ nav_pc = "controlled"
    /\ AllAtGoal
    /\ NoneWithinMinDist
    /\ params.p_cohesion > 0
    /\ params.p_separation > 0
    /\ \E i, j \in DOMAIN poses : poses[i] # poses[j]

(***************************************************************************)
(* Waypoint generation.                                                    *)
(* Candidate sets are kept by their size: the claims about the sampler are *)
(* about how many points each path keeps, returns or rejects.              *)
(***************************************************************************)
\* len(np.linspace(0, 2 * np.pi, num, endpoint=False)); numpy raises for num < 0
LinspaceRaises(num) == num < 0
LinspaceLen(num) == num

\* KMeans(n_clusters=k).fit(points) raises for k < 1 and for fewer samples than clusters
KMeansRaises(n_samples, k) == k < 1 \/ n_samples < k
\* len(kmeans.cluster_centers_)
KMeansCenters(n_samples, k) == k

\* _estimate_bounds: with probe points near the surface spanning extent steps of
\* 0.5 in z, the box is that span with a margin of 0.5 on both sides; with none it
\* is the default box from -5 to 5.  (extent = -1: no probe point was near.)
EstimatedZSpan(extent) == IF extent < 0 THEN 20 ELSE extent + 2

\* z_span <= 0.5
IsThin(span) == span <= 1

\* a fallback test that never fires, used to check that the point count rests on it
FallbackNeededNever(n, num) == FALSE

\* a fallback test with the bound at the count itself, used to check that the choice
\* between fallback and clustering rests on twice the count
FallbackNeededBelowCount(n, num) == n < num

\* len(points) < num_points * 2
FallbackNeeded(n, num) == n < num * 2

\* the outcomes of scipy's minimize: res.success; not res.success with res.fun < 1e6;
\* not res.success with res.fun >= 1e6; an exception
OptimizerOutcomes == {"success", "low_cost", "no_convergence", "exception"}

\* len(out_points) after the refinement: res.x.reshape(-1, 3) has as many rows as
\* the flattened cluster centres, and the centres are kept otherwise
RefinedLen(centres, outcome) ==
    IF outcome \in {"success", "low_cost"} THEN (centres * 3) \div 3 ELSE centres

\* self.goal_positions before the call: None, or the goals of an earlier shape
PriorGoalLens == {-1, 2}

InitSampler ==
    /\ SessionOff
    /\ CircleOff
    /\ NavLoopOff
    /\ AssignOff
    /\ ControlOff
    /\ MissionOff
    /\ num_points \in -1..MaxCount
    /\ gw_path \in {"circle", "sdf"}
    /\ sdf_ok \in BOOLEAN
    /\ zspan = 0
    /\ n_points = 0
    /\ s_pc = "idle"
    /\ via = "none"
    /\ out_len = 0
    /\ gw_result = "none"
    /\ goal_len \in PriorGoalLens

\* generate_waypoints for a circle description: _generate_circle_points, the
\* transform into self.goal_positions, return True; an exception returns False.
GenerateWaypointsCircle ==
    /\ s_pc = "idle"
    /\ gw_path = "circle"
    /\ IF LinspaceRaises(num_points)
       THEN /\ gw_result' = "False"
            /\ UNCHANGED <<out_len, goal_len>>
       ELSE /\ out_len' = LinspaceLen(num_points)
            /\ goal_len' = LinspaceLen(num_points)
            /\ gw_result' = "True"
    /\ via' = "direct_circle"
    /\ s_pc' = "gw_returned"
    /\ UNCHANGED <<num_points, gw_path, sdf_ok, zspan, n_points>>
    /\ UNCHANGED <<avars, cvars, mvars, nvars, xvars, fvars>>

\* generate_waypoints on the SDF path up to the call of generate_points:
\* PointDistributor(sdf_func) estimates the bounds.
CreatePointDistributor ==
    /\ s_pc = "idle"
    /\ gw_path = "sdf"
    /\ \E extent \in -1..MaxExtent : zspan' = EstimatedZSpan(extent)
    /\ s_pc' = "gp_start"
    /\ UNCHANGED <<num_points, gw_path, sdf_ok, n_points, via, out_len, gw_result, goal_len>>
    /\ UNCHANGED <<avars, cvars, mvars, nvars, xvars, fvars>>

\* generate_points: draw num_samples candidates and keep those with
\* |sdf| <= surface_tolerance; when sdf_func raises, the except branch keeps them all.
SampleAndFilter ==
    /\ s_pc = "gp_start"
    /\ IF sdf_ok
       THEN \E k \in 0..NumSamples : n_points' = k
       ELSE n_points' = NumSamples
    /\ s_pc' = "gp_filtered"
    /\ UNCHANGED <<num_points, gw_path, sdf_ok, zspan, via, out_len, gw_result, goal_len>>
    /\ UNCHANGED <<avars, cvars, mvars, nvars, xvars, fvars>>

\* generate_points: for a thin box keep the rim points if there are at least
\* 2 * num_points of them (the point of largest radius is always a rim point).
ThinShape ==
    /\ s_pc = "gp_filtered"
    /\ IF n_points > 0 /\ IsThin(zspan)
       THEN \E rim \in 1..n_points :
                n_points' = IF rim >= num_points * 2 THEN rim ELSE n_points
       ELSE n_points' = n_points
    /\ s_pc' = "gp_thinned"
    /\ UNCHANGED <<num_points, gw_path, sdf_ok, zspan, via, out_len, gw_result, goal_len>>
    /\ UNCHANGED <<avars, cvars, mvars, nvars, xvars, fvars>>

\* generate_points: the circle fallback, or the clustering into num_points centres
FallbackOrCluster ==
    /\ s_pc = "gp_thinned"
    /\ IF FallbackNeeded(n_points, num_points)
       THEN IF LinspaceRaises(num_points)
            THEN /\ s_pc' = "gp_raised"
                 /\ UNCHANGED <<out_len, via>>
            ELSE /\ out_len' = LinspaceLen(num_points)
                 /\ via' = "fallback"
                 /\ s_pc' = "gp_returned"
       ELSE IF KMeansRaises(n_points, num_points)
            THEN /\ s_pc' = "gp_raised"
                 /\ UNCHANGED <<out_len, via>>
            ELSE /\ out_len' = KMeansCenters(n_points, num_points)
                 /\ via' = "centroids"
                 /\ s_pc' = "gp_clustered"
    /\ UNCHANGED <<num_points, gw_path, sdf_ok, zspan, n_points, gw_result, goal_len>>
    /\ UNCHANGED <<avars, cvars, mvars, nvars, xvars, fvars>>

\* generate_points: the bounded L-BFGS-B refinement and the return
Refine ==
    /\ s_pc = "gp_clustered"
    /\ \E outcome \in OptimizerOutcomes :
          /\ out_len' = RefinedLen(out_len, outcome)
          /\ via' = IF outcome \in {"success", "low_cost"} THEN "refined" ELSE "centroids"
    /\ s_pc' = "gp_returned"
    /\ UNCHANGED <<num_points, gw_path, sdf_ok, zspan, n_points, gw_result, goal_len>>
    /\ UNCHANGED <<avars, cvars, mvars, nvars, xvars, fvars>>

\* generate_waypoints after generate_points: the transform into
\* self.goal_positions and return True, or the except branch and return False
GenerateWaypointsReturn ==
    /\ s_pc \in {"gp_returned", "gp_raised"}
    /\ IF s_pc = "gp_returned"
       THEN /\ goal_len' = out_len
            /\ gw_result' = "True"
       ELSE /\ gw_result' = "False"
            /\ UNCHANGED goal_len
    /\ s_pc' = "gw_returned"
    /\ UNCHANGED <<num_points, gw_path, sdf_ok, zspan, n_points, via, out_len>>
    /\ UNCHANGED <<avars, cvars, mvars, nvars, xvars, fvars>>

NextSampler ==
    \/ GenerateWaypointsCircle
    \/ CreatePointDistributor
    \/ SampleAndFilter
    \/ ThinShape
    \/ FallbackOrCluster
    \/ Refine
    \/ GenerateWaypointsReturn

SpecSampler == InitSampler /\ [][NextSampler]_vars

(***************************************************************************)
(* Properties of the waypoint generation.                                  *)
(***************************************************************************)
\* C7: for a count of at least 1 and a surface function that does not raise,
\* generate_points does not raise and returns exactly count points, by the circle
\* fallback, as cluster centres or as refined points.
C7_ExactlyCountPoints ==
    (num_points >= 1 /\ sdf_ok) =>
        /\ s_pc # "gp_raised"
        /\ s_pc = "gp_returned" => out_len = num_points

\* generate_points returned refined points for a count of 2 or more after the
\* filter kept a part of the candidates
C7_Witness ==
    /\ s_pc = "gp_returned"
    /\ via = "refined"
    /\ sdf_ok
    /\ num_points >= 2
    /\ n_points < NumSamples

\* C8: a request for fewer than 1 waypoint is reported as an error on every path:
\* generate_waypoints does not return True and sets no waypoint set.
C8_NonPositiveCountRejected ==
    (num_points <= 0 /\ s_pc = "gw_returned") =>
        /\ gw_result = "False"
        /\ goal_len \in PriorGoalLens

\* C23: for a count of at least 1, generate_points takes the circle fallback, without
\* clustering or refinement, exactly when fewer than 2 * count candidates are left,
\* and then returns count synthesized points; with 2 * count or more it clusters
\* into count centres and goes through the refinement.
C23_FallbackBelowTwiceCount ==
    (num_points >= 1 /\ s_pc \in {"gp_clustered", "gp_returned"}) =>
        /\ via = "fallback" <=> n_points < 2 * num_points
        /\ via = "fallback" => (s_pc = "gp_returned" /\ out_len = num_points)
        /\ via # "fallback" =>
              /\ via \in {"centroids", "refined"}
              /\ out_len = num_points

\* generate_points returned by the circle fallback for a count of 2 or more with
\* some candidates left by the filter, but fewer than twice the count
C23_Witness ==
    /\ s_pc = "gp_returned"
    /\ via = "fallback"
    /\ sdf_ok
    /\ num_points >= 2
    /\ n_points >= num_points
    /\ n_points < 2 * num_points

\* C24: a shape whose near-surface points span at most 0.5 along z is treated as
\* planar when the candidates are thinned to the rim.
C24_FlatShapeTreatedAsPlanar ==
    (s_pc = "gp_thinned" /\ n_points > 0 /\ \E extent \in 0..1 : zspan = EstimatedZSpan(extent)) =>
        IsThin(zspan)

\* C26: when the surface function raises while the candidates are evaluated, none
\* of the candidates is kept after the filter.
C26_RaisingCandidatesRejected ==
    (~sdf_ok /\ s_pc \in {"gp_filtered", "gp_thinned"}) => n_points = 0

(***************************************************************************)
(* The mission sequence: start_mission on the caller's thread, the hover   *)
(* thread it starts, and a stop_mission call from another context.         *)
(* Positions are in units of 1/Scale m as in the controller; the clock     *)
(* counts periods of dt.                                                   *)
(***************************************************************************)
\* where goal points may lie
MissionGoalPoints == {<<0, 0, 0>>, <<2 * Scale, 0, 0>>}

\* what swarm.get_positions() may report for a drone: at a goal point, or a quarter
\* of a metre from the first one
MissionPoints == MissionGoalPoints \cup {<<Scale \div 4, 0, 0>>}

Polls == [1..MissionDrones -> MissionPoints]

\* arrival_thresh = 0.5 and the hover loop's drift threshold 0.5, squared
ThreshSq == (Scale \div 2) * (Scale \div 2)

\* a vehicle command of the given kind goes out; the log merges repeats of a kind
Issue(l, kind) == IF l # <<>> /\ l[Len(l)] = kind THEN l ELSE Append(l, kind)

\* the for loop of _assign_nearest_unique, run to its end
RECURSIVE AssignLoop(_, _, _, _, _, _)
AssignLoop(dists, drone_order, k, claimed, asg, allow_duplicates) ==
    IF k > Len(drone_order) THEN asg
    ELSE LET di == drone_order[k]
             sorted_goals == SortedGoals(dists[di], DOMAIN dists[di])
             pick == Pick(sorted_goals, claimed, allow_duplicates)
         IN  AssignLoop(dists, drone_order, k + 1, claimed \cup {pick},
                        [asg EXCEPT ![di] = pick], allow_duplicates)

\* _assign_nearest_unique(goal_positions) for at least one goal
AssignNearestUnique(pos, gp) ==
    AssignLoop(Dists(pos, gp), ArgsortDesc(MinDists(pos, gp), 1..Len(pos)), 1, {},
               [d \in 1..Len(pos) |-> 0], Len(gp) < Len(pos))

\* np.all(dists <= arrival_thresh), dists the 3-D distances to the assigned goals
AllArrived(pos, ag) == \A i \in 1..MissionDrones : MagSq(VSub(pos[i], ag[i])) <= ThreshSq

\* a navigation loop without its timeout, used to check that termination rests on it
TimedOutNever(e) == FALSE

\* time.time() - t_start > max_time
TimedOut(e) == e > MaxTime

\* the periods one iteration may take: the sleep of dt alone, or the calls add one
TickPeriods == 1..2

\* The clock after d more periods. The loop only asks whether the clock is past
\* max_time, so past it the clock is kept modulo 2.
ClockAfter(e, d) ==
    IF e + d <= MaxTime + 2 THEN e + d
    ELSE MaxTime + 1 + ((e + d - MaxTime - 1) % 2)

\* goal_positions[:positions.shape[0]]
HoverRows == IF Len(goal_positions) < MissionDrones THEN Len(goal_positions) ELSE MissionDrones

\* positions - goal_positions[:n] broadcasts for n rows or for one row, else numpy raises
HoverShapesFit == HoverRows = MissionDrones \/ HoverRows = 1

\* max_distance > 0.5
HoverDrift(pos) ==
    \E i \in 1..MissionDrones :
        MagSq(VSub(pos[i], goal_positions[IF HoverRows = 1 THEN 1 ELSE i])) > ThreshSq

\* stop_ticks after one more iteration of a control loop has sent its commands
TicksAfterStop ==
    IF st_pc = "idle" THEN stop_ticks
    ELSE IF stop_ticks < 2 THEN stop_ticks + 1 ELSE 2

InitMission ==
    /\ SessionOff
    /\ CircleOff
    /\ NavLoopOff
    /\ ControlOff
    /\ SamplerOff
    /\ current_positions = <<>>
    /\ acall = [c \in Calls |-> AssignIdle]
    /\ out_goals = <<>>
    /\ goal_positions \in SeqsUpTo(MissionGoalPoints, 0, MissionGoals)
    /\ goal_len \in {-1, Len(goal_positions)}
    /\ goal_len = -1 => goal_positions = <<>>
    /\ m_pc = "idle"
    /\ launched = 0
    /\ launch_log = <<>>
    /\ assignments = <<>>
    /\ nav_goals = <<>>
    /\ elapsed = 0
    /\ nav_exit = "none"
    /\ start_result = "none"
    /\ is_running = FALSE
    /\ control_thread = "none"
    /\ h_pc = "none"
    /\ st_pc = "idle"
    /\ log = <<>>
    /\ stop_ticks = 0
    /\ hold_targets = <<>>

\* ---- start_mission, on the caller's thread
\* The None test, and arm_all: every drone gets its arm command (a failing one is
\* logged by the drone wrapper and the call goes on).
StartMission ==
    /\ m_pc = "idle"
    /\ IF goal_len = -1
       THEN /\ m_pc' = "returned"
            /\ start_result' = "False"
            /\ log' = log
       ELSE /\ m_pc' = "takeoff"
            /\ start_result' = start_result
            /\ log' = Issue(log, "arm")
    /\ UNCHANGED <<launched, launch_log, assignments, nav_goals, elapsed, nav_exit,
                   is_running, control_thread, h_pc, st_pc>>
    /\ UNCHANGED <<stop_ticks, hold_targets>>
    /\ UNCHANGED <<avars, cvars, svars, nvars, xvars, fvars>>

\* One iteration of the staggered launch: drone.takeoff(5.0), then task.join(), then
\* the sleep. (A drone whose takeoff returns no task is not joined; the order of the
\* other entries is the same.)
LaunchNext ==
    /\ m_pc = "takeoff"
    /\ LET i == launched + 1
       IN  /\ launched' = i
           /\ launch_log' = launch_log \o <<<<"takeoff", i>>, <<"join", i>>>>
           /\ m_pc' = IF i = MissionDrones THEN "assign" ELSE "takeoff"
    /\ log' = Issue(log, "takeoff")
    /\ UNCHANGED <<assignments, nav_goals, elapsed, nav_exit, start_result,
                   is_running, control_thread, h_pc, st_pc>>
    /\ UNCHANGED <<stop_ticks, hold_targets>>
    /\ UNCHANGED <<avars, cvars, svars, nvars, xvars, fvars>>

\* _assign_nearest_unique on freshly polled positions and the assigned_goals array.
\* With no goal row dists.min(axis=1) raises: the except clause of start_mission
\* returns False, and no landing is commanded.
AssignGoals ==
    /\ m_pc = "assign"
    /\ IF Len(goal_positions) = 0
       THEN /\ m_pc' = "returned"
            /\ start_result' = "False"
            /\ UNCHANGED <<assignments, nav_goals>>
       ELSE \E pos \in Polls :
            \E asg \in {AssignNearestUnique(pos, goal_positions)} :
                /\ assignments' = asg
                /\ nav_goals' = [i \in 1..MissionDrones |-> goal_positions[asg[i]]]
                /\ m_pc' = "nav"
                /\ start_result' = start_result
    /\ elapsed' = 0
    /\ UNCHANGED <<launched, launch_log, nav_exit, is_running, control_thread,
                   h_pc, st_pc, log>>
    /\ UNCHANGED <<stop_ticks, hold_targets>>
    /\ UNCHANGED <<avars, cvars, svars, nvars, xvars, fvars>>

\* One iteration of the navigation loop: poll, compute and dispatch the velocities,
\* then the arrival test, then the timeout test, then the sleep.
NavigationTick ==
    /\ m_pc = "nav"
    /\ log' = Issue(log, "velocity")
    /\ \E pos \in Polls :
        IF AllArrived(pos, nav_goals)
        THEN /\ nav_exit' = "arrived"
             /\ m_pc' = "final"
             /\ elapsed' = elapsed
        ELSE IF TimedOut(elapsed)
        THEN /\ nav_exit' = "timeout"
             /\ m_pc' = "final"
             /\ elapsed' = elapsed
        ELSE /\ \E d \in TickPeriods : elapsed' = ClockAfter(elapsed, d)
             /\ UNCHANGED <<nav_exit, m_pc>>
    /\ UNCHANGED <<launched, launch_log, assignments, nav_goals, start_result,
                   is_running, control_thread, h_pc, st_pc>>
    /\ stop_ticks' = TicksAfterStop
    /\ UNCHANGED hold_targets
    /\ UNCHANGED <<avars, cvars, svars, nvars, xvars, fvars>>

\* After the loop: zero velocities, then set_positions(assigned_goals) and its joins.
FinalPlacement ==
    /\ m_pc = "final"
    /\ log' = Issue(Issue(log, "velocity"), "position")
    /\ hold_targets' = nav_goals
    /\ m_pc' = "spawn"
    /\ UNCHANGED <<launched, launch_log, assignments, nav_goals, elapsed, nav_exit,
                   start_result, is_running, control_thread, h_pc, st_pc>>
    /\ UNCHANGED stop_ticks
    /\ UNCHANGED <<avars, cvars, svars, nvars, xvars, fvars>>

\* is_running = True, the hover thread is created and started, return True
StartHovering ==
    /\ m_pc = "spawn"
    /\ is_running' = TRUE
    /\ control_thread' = "started"
    /\ h_pc' = "check"
    /\ start_result' = "True"
    /\ m_pc' = "returned"
    /\ UNCHANGED <<launched, launch_log, assignments, nav_goals, elapsed, nav_exit,
                   st_pc, log>>
    /\ UNCHANGED <<stop_ticks, hold_targets>>
    /\ UNCHANGED <<avars, cvars, svars, nvars, xvars, fvars>>

MainThread ==
    \/ StartMission
    \/ LaunchNext
    \/ AssignGoals
    \/ NavigationTick
    \/ FinalPlacement
    \/ StartHovering

\* ---- _hovering_control_loop, on the hover thread
\* "while self.is_running": the loop goes on or the thread ends
HoverCheck ==
    /\ h_pc = "check"
    /\ h_pc' = IF is_running THEN "poll" ELSE "done"
    /\ UNCHANGED <<m_pc, launched, launch_log, assignments, nav_goals, elapsed, nav_exit,
                   start_result, is_running, control_thread, st_pc, log>>
    /\ UNCHANGED <<stop_ticks, hold_targets>>
    /\ UNCHANGED <<avars, cvars, svars, nvars, xvars, fvars>>

\* get_positions and the drift test against goal_positions[:n]; without drift the
\* thread sleeps control_dt and tests is_running again
HoverPoll ==
    /\ h_pc = "poll"
    /\ \E pos \in Polls :
        h_pc' = IF ~HoverShapesFit THEN "raised"
                ELSE IF HoverDrift(pos) THEN "drifted"
                ELSE "check"
    /\ UNCHANGED <<m_pc, launched, launch_log, assignments, nav_goals, elapsed, nav_exit,
                   start_result, is_running, control_thread, st_pc, log>>
    /\ UNCHANGED <<stop_ticks, hold_targets>>
    /\ UNCHANGED <<avars, cvars, svars, nvars, xvars, fvars>>

\* set_positions(goal_positions, velocity=0.5): drone i is sent to row i of
\* goal_positions as far as the rows go; then the joins and the sleep
HoverReposition ==
    /\ h_pc = "drifted"
    /\ log' = Issue(log, "position")
    /\ hold_targets' = SubSeq(goal_positions, 1, HoverRows)
    /\ stop_ticks' = TicksAfterStop
    /\ h_pc' = "check"
    /\ UNCHANGED <<m_pc, launched, launch_log, assignments, nav_goals, elapsed, nav_exit,
                   start_result, is_running, control_thread, st_pc>>
    /\ UNCHANGED <<avars, cvars, svars, nvars, xvars, fvars>>

\* The except clause calls stop_mission on the hover thread itself: is_running is
\* cleared, control_thread.join raises RuntimeError (a thread cannot join itself),
\* stop_mission's own except clause swallows it before land_all, and the thread ends.
HoverRaised ==
    /\ h_pc = "raised"
    /\ is_running' = FALSE
    /\ h_pc' = "done"
    /\ UNCHANGED <<m_pc, launched, launch_log, assignments, nav_goals, elapsed, nav_exit,
                   start_result, control_thread, st_pc, log>>
    /\ UNCHANGED <<stop_ticks, hold_targets>>
    /\ UNCHANGED <<avars, cvars, svars, nvars, xvars, fvars>>

HoverThread ==
    \/ HoverCheck
    \/ HoverPoll
    \/ HoverReposition
    \/ HoverRaised

\* ---- stop_mission, called from another context once the fleet navigates or hovers
StopMission ==
    /\ st_pc = "idle"
    /\ m_pc \in {"nav", "final", "spawn"} \/ start_result = "True"
    /\ is_running' = FALSE
    /\ st_pc' = IF control_thread = "none" THEN "land" ELSE "join"
    /\ UNCHANGED <<m_pc, launched, launch_log, assignments, nav_goals, elapsed, nav_exit,
                   start_result, control_thread, h_pc, log>>
    /\ UNCHANGED <<stop_ticks, hold_targets>>
    /\ UNCHANGED <<avars, cvars, svars, nvars, xvars, fvars>>

\* control_thread.join(timeout=5.0) returns: the thread has ended, or the five
\* seconds have passed while it is still in an iteration
StopJoin ==
    /\ st_pc = "join"
    /\ st_pc' = "land"
    /\ UNCHANGED <<m_pc, launched, launch_log, assignments, nav_goals, elapsed, nav_exit,
                   start_result, is_running, control_thread, h_pc, log>>
    /\ UNCHANGED <<stop_ticks, hold_targets>>
    /\ UNCHANGED <<avars, cvars, svars, nvars, xvars, fvars>>

\* land_all: every drone gets its land command, then the joins
StopLand ==
    /\ st_pc = "land"
    /\ log' = Issue(log, "land")
    /\ st_pc' = "disarm"
    /\ UNCHANGED <<m_pc, launched, launch_log, assignments, nav_goals, elapsed, nav_exit,
                   start_result, is_running, control_thread, h_pc>>
    /\ UNCHANGED <<stop_ticks, hold_targets>>
    /\ UNCHANGED <<avars, cvars, svars, nvars, xvars, fvars>>

\* disarm_all, and stop_mission returns
StopDisarm ==
    /\ st_pc = "disarm"
    /\ log' = Issue(log, "disarm")
    /\ st_pc' = "done"
    /\ UNCHANGED <<m_pc, launched, launch_log, assignments, nav_goals, elapsed, nav_exit,
                   start_result, is_running, control_thread, h_pc>>
    /\ UNCHANGED <<stop_ticks, hold_targets>>
    /\ UNCHANGED <<avars, cvars, svars, nvars, xvars, fvars>>

StopCaller ==
    \/ StopMission
    \/ StopJoin
    \/ StopLand
    \/ StopDisarm

NextMission == MainThread \/ HoverThread \/ StopCaller

SpecMission == InitMission /\ [][NextMission]_vars

\* From the navigation loop on, the caller's thread keeps running and the
\* vehicle-interface calls it makes return.
SpecMissionFair ==
    /\ SpecMission
    /\ WF_vars(NavigationTick)
    /\ WF_vars(FinalPlacement)
    /\ WF_vars(StartHovering)

(***************************************************************************)
(* Properties of the mission sequence.                                     *)
(***************************************************************************)
\* the place of a command kind in arm, takeoff, navigation, hovering, land, disarm
PhaseRank(kind) ==
    CASE kind = "arm" -> 1
      [] kind = "takeoff" -> 2
      [] kind = "velocity" -> 3
      [] kind = "position" -> 4
      [] kind = "land" -> 5
      [] kind = "disarm" -> 6

\* C9: within one mission the commands go out in the order arm, takeoff, navigation,
\* hovering, land, disarm: no command of an earlier phase is issued after a command
\* of a later phase.
C9_PhaseOrderKept ==
    \A i, j \in 1..Len(log) : i < j => PhaseRank(log[i]) <= PhaseRank(log[j])

\* C10: the navigation loop is left only on arrival or once the timeout has passed,
\* and a mission that entered it always gets on to hovering: is_running has been set
\* and the hover thread started.
C10_NavigationEndsInHover ==
    /\ [](m_pc \in {"final", "spawn", "returned"} /\ nav_exit # "none" =>
            nav_exit = "arrived" \/ (nav_exit = "timeout" /\ elapsed > MaxTime))
    /\ (m_pc = "nav") ~> (start_result = "True" /\ control_thread = "started")

\* hovering was started after the loop timed out with some agent not arrived
C10_Witness ==
    /\ start_result = "True"
    /\ control_thread = "started"
    /\ nav_exit = "timeout"

\* C11: once stop_mission has been called from another context, the control loops
\* send motion commands in at most one more iteration, and a stop_mission call that
\* has returned has commanded the landing.
C11_StopHonoured ==
    /\ stop_ticks <= 1
    /\ st_pc = "done" => \E k \in 1..Len(log) : log[k] = "land"

\* C12: a start_mission that fails after the fleet was armed has commanded land and
\* disarm before it returns False.
C12_LandBeforeFailure ==
    (start_result = "False" /\ \E k \in 1..Len(log) : log[k] = "arm") =>
        /\ \E k \in 1..Len(log) : log[k] = "land"
        /\ \E k \in 1..Len(log) : log[k] = "disarm"

\* C14: every set_positions call of the flight, the snap after the navigation loop
\* and every hold of the hover thread, sends drone i to the goal assigned to drone i.
C14_TargetsAreAssignedGoals ==
    \A i \in 1..Len(hold_targets) : hold_targets[i] = nav_goals[i]

\* C15: a start_mission whose goal assignment fails has issued no vehicle command.
C15_NoActuationOnAssignFailure ==
    (start_result = "False" /\ goal_len # -1) => log = <<>>

\* C17: every drone's takeoff command is issued before the takeoff of any drone is
\* joined.
C17_TakeoffRendezvous ==
    \A a, b \in 1..Len(launch_log) :
        (launch_log[a][1] = "join" /\ launch_log[b][1] = "takeoff") => b < a

\* C27: when the hover loop has ended on an exception, without any stop_mission call
\* from outside, is_running is false and land and disarm have been commanded.
C27_HoverFailureLands ==
    (h_pc = "done" /\ st_pc = "idle") =>
        /\ ~is_running
        /\ \E k \in 1..Len(log) : log[k] = "land"
        /\ \E k \in 1..Len(log) : log[k] = "disarm"

\* C28: the hover thread sends no set_positions command once a land command has
\* been issued.
C28_NoHoldAfterLand ==
    [][(h_pc = "drifted" /\ h_pc' = "check") => \A k \in 1..Len(log) : log[k] # "land"]_vars

(***************************************************************************)
(* The navigation loop of start_mission step by step, with the outcome of   *)
(* each drone's position poll and velocity command.  A period of dt passes  *)
(* per iteration.                                                          *)
(***************************************************************************)
Drones == 1..MissionDrones

\* a loop that sends the commands first and polls afterwards, used to check that the
\* order of the steps matters
TickOrderCommandFirst == <<"dispatch", "poll", "control", "clip", "damp", "arrival">>

\* the statements of one iteration, in program order
TickOrder == <<"poll", "control", "clip", "damp", "dispatch", "arrival">>

StepAfter(st) ==
    LET k == CHOOSE n \in 1..Len(TickOrder) : TickOrder[n] = st
    IN  TickOrder[(k % Len(TickOrder)) + 1]

\* a set_velocities whose failures reach the except clause of start_mission, used to
\* check that the isolation rests on the per-drone handlers
AfterDispatchRaising(failed) == IF failed # {} THEN "exited" ELSE StepAfter("dispatch")

\* Where the loop goes after set_velocities: set_velocity catches every failure of
\* its drone, so the call returns whatever failed.
AfterDispatch(failed) == StepAfter("dispatch")

InitNavLoop ==
    /\ SessionOff
    /\ CircleOff
    /\ AssignOff
    /\ ControlOff
    /\ SamplerOff
    /\ goal_len = -1
    /\ MissionOff
    /\ t_pc = TickOrder[1]
    /\ tick = 1
    /\ steps = <<>>
    /\ poll_failed = {}
    /\ cmd_sent = {}
    /\ cmd_failed = {}
    /\ ever_failed = {}
    /\ dispatched = 0
    /\ poll_stamp = 0
    /\ loop_exit = "none"

\* swarm.get_positions(): update_position of every drone; a drone whose poll fails
\* keeps its previous position and the call returns
PollPositions ==
    /\ t_pc = "poll"
    /\ \E f \in SUBSET Drones : poll_failed' = f
    /\ poll_stamp' = dispatched
    /\ steps' = Append(steps, "poll")
    /\ t_pc' = StepAfter("poll")
    /\ UNCHANGED <<tick, cmd_sent, cmd_failed, ever_failed, dispatched, loop_exit>>
    /\ UNCHANGED <<avars, cvars, svars, mvars, xvars, fvars>>

\* get_control, the clip, the predictive check: computations on the polled positions
ComputeStep(st) ==
    /\ t_pc = st
    /\ steps' = Append(steps, st)
    /\ t_pc' = StepAfter(st)
    /\ UNCHANGED <<tick, poll_failed, cmd_sent, cmd_failed, ever_failed, dispatched,
                   poll_stamp, loop_exit>>
    /\ UNCHANGED <<avars, cvars, svars, mvars, xvars, fvars>>

\* swarm.set_velocities(vels): set_velocity is called for every drone in turn
DispatchVelocities ==
    /\ t_pc = "dispatch"
    /\ cmd_sent' = Drones
    /\ \E f \in SUBSET Drones :
        /\ cmd_failed' = f
        /\ t_pc' = AfterDispatch(f)
        /\ loop_exit' = IF AfterDispatch(f) = "exited" THEN "error" ELSE loop_exit
    /\ dispatched' = dispatched + 1
    /\ steps' = Append(steps, "dispatch")
    /\ UNCHANGED <<tick, poll_failed, ever_failed, poll_stamp>>
    /\ UNCHANGED <<avars, cvars, svars, mvars, xvars, fvars>>

\* the arrival test, the timeout test, the sleep and the start of the next iteration
ArrivalCheck ==
    /\ t_pc = "arrival"
    /\ \E arrived \in BOOLEAN :
        IF arrived \/ TimedOut(tick - 1)
        THEN /\ loop_exit' = IF arrived THEN "arrived" ELSE "timeout"
             /\ t_pc' = "exited"
             /\ steps' = Append(steps, "arrival")
             /\ UNCHANGED <<tick, poll_failed, cmd_sent, cmd_failed, ever_failed>>
        ELSE /\ tick' = tick + 1
             /\ t_pc' = StepAfter("arrival")
             /\ steps' = <<>>
             /\ ever_failed' = ever_failed \cup cmd_failed
             /\ poll_failed' = {}
             /\ cmd_sent' = {}
             /\ cmd_failed' = {}
             /\ UNCHANGED loop_exit
    /\ UNCHANGED <<dispatched, poll_stamp>>
    /\ UNCHANGED <<avars, cvars, svars, mvars, xvars, fvars>>

NextNavLoop ==
    \/ PollPositions
    \/ \E st \in {"control", "clip", "damp"} : ComputeStep(st)
    \/ DispatchVelocities
    \/ ArrivalCheck

SpecNavLoop == InitNavLoop /\ [][NextNavLoop]_vars

(***************************************************************************)
(* Properties of the navigation loop.                                      *)
(***************************************************************************)
Done(st) == \E k \in 1..Len(steps) : steps[k] = st

\* C13: a drone whose velocity command failed gets no velocity command in later
\* iterations, and once every drone's command has failed the loop ends in failure.
C13_FailedDroneExcluded ==
    /\ cmd_sent \cap ever_failed = {}
    /\ ever_failed = Drones => loop_exit = "error"

\* C19: a failed poll or a failed velocity command of single drones does not end the
\* loop: every drone is still served by the set_velocities call of that iteration,
\* and the loop is left only on arrival or on the timeout.
C19_DroneErrorsIsolated ==
    /\ loop_exit # "error"
    /\ Done("dispatch") => cmd_sent = Drones
    /\ t_pc = "exited" => loop_exit \in {"arrived", "timeout"}

\* in a later iteration, after a poll and a command of some but not all drones
\* failed, the commands have gone out and the loop is at its arrival test
C19_Witness ==
    /\ tick >= 2
    /\ ever_failed # {}
    /\ poll_failed # {}
    /\ cmd_failed # {} /\ cmd_failed # Drones
    /\ cmd_sent = Drones
    /\ t_pc = "arrival"

HoverThreads == 1..MaxStarts

\* the hover threads that have been started and have not ended
Alive == {t \in HoverThreads : hover[t] \in {"check", "body"}}

InitSession ==
    /\ CircleOff
    /\ AssignOff
    /\ ControlOff
    /\ SamplerOff
    /\ goal_len = -1
    /\ MissionOff
    /\ NavLoopOff
    /\ c_pc = "prompt"
    /\ wp_set = 0
    /\ wp_made = 0
    /\ last_prepare = "none"
    /\ flown = 0
    /\ sess_running = FALSE
    /\ sess_thread = 0
    /\ hover = [t \in HoverThreads |-> "unborn"]
    /\ starts = 0
    /\ start_ret = "none"
    /\ issued = FALSE
    /\ mission_open = FALSE

\* prepare_mission: describe_shape and generate_waypoints.  Only the last statements
\* of a successful generate_waypoints assign self.goal_positions; every failing path
\* returns False and leaves it as it was.
PrepareMission ==
    /\ c_pc = "prompt"
    /\ \E ok \in BOOLEAN :
        IF ok /\ wp_made < MaxShapes
        THEN /\ wp_made' = wp_made + 1
             /\ wp_set' = wp_made + 1
             /\ last_prepare' = "True"
        ELSE /\ last_prepare' = "False"
             /\ UNCHANGED <<wp_made, wp_set>>
    /\ start_ret' = "none"
    /\ issued' = FALSE
    /\ UNCHANGED <<c_pc, flown, sess_running, sess_thread, hover, starts, mission_open>>
    /\ UNCHANGED <<avars, cvars, svars, mvars, nvars, fvars>>

\* start_mission up to the navigation loop: the None test, then arm, takeoff and the
\* goals taken from self.goal_positions
CallStartMission ==
    /\ c_pc = "prompt"
    /\ starts < MaxStarts
    /\ IF wp_set = 0
       THEN /\ start_ret' = "False"
            /\ UNCHANGED <<c_pc, issued, flown, mission_open>>
       ELSE /\ start_ret' = "flying"
            /\ c_pc' = "navigating"
            /\ issued' = TRUE
            /\ flown' = wp_set
            /\ mission_open' = TRUE
    /\ UNCHANGED <<wp_set, wp_made, last_prepare, sess_running, sess_thread, hover, starts>>
    /\ UNCHANGED <<avars, cvars, svars, mvars, nvars, fvars>>

\* The end of start_mission: is_running = True, a new hover thread is created, stored
\* in control_thread and started, return True; or an exception on the way, the
\* emergency landing and return False.
ReturnStartMission ==
    /\ c_pc = "navigating"
    /\ \E ok \in BOOLEAN :
        IF ok
        THEN /\ starts' = starts + 1
             /\ sess_running' = TRUE
             /\ sess_thread' = starts + 1
             /\ hover' = [hover EXCEPT ![starts + 1] = "check"]
             /\ start_ret' = "True"
             /\ mission_open' = mission_open
        ELSE /\ start_ret' = "False"
             /\ mission_open' = FALSE
             /\ UNCHANGED <<starts, sess_running, sess_thread, hover>>
    /\ c_pc' = "prompt"
    /\ UNCHANGED <<wp_set, wp_made, last_prepare, flown, issued>>
    /\ UNCHANGED <<avars, cvars, svars, mvars, nvars, fvars>>

\* "while self.is_running" on hover thread t
SessionHoverCheck(t) ==
    /\ hover[t] = "check"
    /\ hover' = [hover EXCEPT ![t] = IF sess_running THEN "body" ELSE "ended"]
    /\ UNCHANGED <<c_pc, wp_set, wp_made, last_prepare, flown, sess_running, sess_thread,
                   starts, start_ret, issued, mission_open>>
    /\ UNCHANGED <<avars, cvars, svars, mvars, nvars, fvars>>

\* The body of the hover loop on thread t: it reads self.goal_positions and sleeps, or
\* raises, and then its handler's stop_mission clears is_running and the thread ends.
SessionHoverBody(t) ==
    /\ hover[t] = "body"
    /\ \E raised \in BOOLEAN :
        /\ hover' = [hover EXCEPT ![t] = IF raised THEN "ended" ELSE "check"]
        /\ sess_running' = IF raised THEN FALSE ELSE sess_running
        /\ mission_open' = IF raised THEN FALSE ELSE mission_open
    /\ UNCHANGED <<c_pc, wp_set, wp_made, last_prepare, flown, sess_thread,
                   starts, start_ret, issued>>
    /\ UNCHANGED <<avars, cvars, svars, mvars, nvars, fvars>>

\* stop_mission: is_running = False, then the join when there is a control_thread
CallStopMission ==
    /\ c_pc = "prompt"
    /\ sess_running' = FALSE
    /\ IF sess_thread = 0
       THEN /\ mission_open' = FALSE
            /\ c_pc' = c_pc
       ELSE /\ c_pc' = "joining"
            /\ mission_open' = mission_open
    /\ UNCHANGED <<wp_set, wp_made, last_prepare, flown, sess_thread, hover, starts,
                   start_ret, issued>>
    /\ UNCHANGED <<avars, cvars, svars, mvars, nvars, fvars>>

\* control_thread.join(timeout=5.0) returns, because the thread has ended or because
\* the time is up; then land_all, disarm_all and the return
ReturnStopMission ==
    /\ c_pc = "joining"
    /\ c_pc' = "prompt"
    /\ mission_open' = FALSE
    /\ UNCHANGED <<wp_set, wp_made, last_prepare, flown, sess_running, sess_thread, hover,
                   starts, start_ret, issued>>
    /\ UNCHANGED <<avars, cvars, svars, mvars, nvars, fvars>>

NextSession ==
    \/ PrepareMission
    \/ CallStartMission
    \/ ReturnStartMission
    \/ \E t \in HoverThreads : SessionHoverCheck(t) \/ SessionHoverBody(t)
    \/ CallStopMission
    \/ ReturnStopMission

SpecSession == InitSession /\ [][NextSession]_vars

(***************************************************************************)
(* Properties of a session.                                                *)
(***************************************************************************)
\* C21: from start_mission to the end of stop_mission self.goal_positions stays the
\* waypoint set the mission was started on.
C21_WaypointsFixedInMission ==
    mission_open => wp_set = flown

\* C22: at any time at most one control loop is active on a controller, counting the
\* navigation loop of a running start_mission and every hover thread that has not ended.
C22_OneControlLoop ==
    Cardinality(Alive) + (IF c_pc = "navigating" THEN 1 ELSE 0) <= 1

\* C29: a start_mission that follows a prepare_mission that returned False returns
\* False and issues no vehicle command.
C29_FailedPrepareBlocksStart ==
    (last_prepare = "False" /\ start_ret # "none") =>
        /\ start_ret = "False"
        /\ ~issued

(***************************************************************************)
(* The circle fallback of the sampler, _fallback_circle_points, on the box *)
(* that _estimate_bounds made.  Lengths are in units of 0.25, so that the  *)
(* probe grid of step 0.5, the margin of 0.5 and the half spans are whole  *)
(* numbers; returned coordinates are in 1/1000 of that unit.               *)
(***************************************************************************)
\* the lowest and highest near-surface probe coordinate on one axis, in grid steps
ProbeSpans == {sp \in (-ProbeMax..ProbeMax) \X (-ProbeMax..ProbeMax) : sp[1] <= sp[2]}

\* _estimate_bounds with near-surface probe points: min - 0.5 and max + 0.5 per axis
EstimatedBounds(sx, sy, sz) ==
    [bmin |-> <<2 * sx[1] - 2, 2 * sy[1] - 2, 2 * sz[1] - 2>>,
     bmax |-> <<2 * sx[2] + 2, 2 * sy[2] + 2, 2 * sz[2] + 2>>]

\* _estimate_bounds without any: the box from -5 to 5
DefaultBounds ==
    [bmin |-> <<-20, -20, -20>>, bmax |-> <<20, 20, 20>>]

\* the counts of the calls followed
CircleCounts == 1..4

\* np.linspace(0, 2 * np.pi, num, endpoint=False)[k - 1], in degrees
LinspaceAngle(num, k) == ((k - 1) * 360) \div num

\* np.cos and np.sin at those angles, in 1/1000
CosMilli(deg) ==
    CASE deg = 0 -> 1000
      [] deg = 90 -> 0
      [] deg = 120 -> -500
      [] deg = 180 -> -1000
      [] deg = 240 -> -500
      [] deg = 270 -> 0

SinMilli(deg) ==
    CASE deg = 0 -> 0
      [] deg = 90 -> 1000
      [] deg = 120 -> 866
      [] deg = 180 -> 0
      [] deg = 240 -> -866
      [] deg = 270 -> -1000

\* radius = max(span_xy) / 2, and 1.0 if that is not positive
CircleRadius(bmin, bmax) ==
    LET span_x == bmax[1] - bmin[1]
        span_y == bmax[2] - bmin[2]
        half == (IF span_x >= span_y THEN span_x ELSE span_y) \div 2
    IN  IF half <= 0 THEN 4 ELSE half

\* the rows of np.stack([radius * cos, radius * sin, z_center], axis=1)
FallbackCirclePoints(bmin, bmax, num) ==
    LET radius == CircleRadius(bmin, bmax)
        z_center == (bmin[3] + bmax[3]) \div 2
    IN  [k \in 1..num |->
            <<radius * CosMilli(LinspaceAngle(num, k)),
              radius * SinMilli(LinspaceAngle(num, k)),
              1000 * z_center>>]

InitCircle ==
    /\ AssignOff
    /\ ControlOff
    /\ SamplerOff
    /\ goal_len = -1
    /\ MissionOff
    /\ NavLoopOff
    /\ SessionOff
    /\ f_pc = "called"
    /\ \E b \in {EstimatedBounds(sx, sy, sz) : sx \in ProbeSpans, sy \in ProbeSpans,
                                             sz \in ProbeSpans} \cup {DefaultBounds} :
          /\ bounds_min = b.bmin
          /\ bounds_max = b.bmax
    /\ circle_count \in CircleCounts
    /\ circle_points = <<>>

CallFallbackCircle ==
    /\ f_pc = "called"
    /\ circle_points' = FallbackCirclePoints(bounds_min, bounds_max, circle_count)
    /\ f_pc' = "returned"
    /\ UNCHANGED <<bounds_min, bounds_max, circle_count>>
    /\ UNCHANGED <<avars, cvars, svars, mvars, nvars, xvars>>

NextCircle == CallFallbackCircle

SpecCircle == InitCircle /\ [][NextCircle]_vars

(***************************************************************************)
(* Properties of the circle fallback.                                      *)
(***************************************************************************)
Sq(x) == x * x
AbsDiff(a, b) == IF a >= b THEN a - b ELSE b - a

\* the squared length of the chord from point k to the next one round the circle
ChordSq(k) ==
    LET p == circle_points[k]
        q == circle_points[(k % circle_count) + 1]
    IN  Sq(p[1] - q[1]) + Sq(p[2] - q[2])

\* consecutive points are the same angle apart (chords equal to 1 in 1000)
EvenlySpaced ==
    \A j, k \in 1..circle_count : AbsDiff(ChordSq(j), ChordSq(k)) <= ChordSq(j) \div 1000

\* every point is at the mid-height of the box
AtMidHeight ==
    \A k \in 1..circle_count :
        circle_points[k][3] = 1000 * ((bounds_min[3] + bounds_max[3]) \div 2)

\* every point is inside the box in the plane
InsideBox ==
    \A k \in 1..circle_count :
        /\ 1000 * bounds_min[1] <= circle_points[k][1]
        /\ circle_points[k][1] <= 1000 * bounds_max[1]
        /\ 1000 * bounds_min[2] <= circle_points[k][2]
        /\ circle_points[k][2] <= 1000 * bounds_max[2]

\* every point is at one and the same distance from the centre of the box in the plane
\* (squared distances equal to 1 in 1000)
RoundBoxCentre ==
    LET DSq(k) == Sq(circle_points[k][1] - 1000 * ((bounds_min[1] + bounds_max[1]) \div 2))
                  + Sq(circle_points[k][2] - 1000 * ((bounds_min[2] + bounds_max[2]) \div 2))
    IN  \A j, k \in 1..circle_count : AbsDiff(DSq(j), DSq(k)) <= DSq(j) \div 1000

\* C25: the points of the circle fallback are evenly spaced in angle, at the
\* mid-height of the bounding box, and on a circle round the centre of the box that
\* lies inside the box.
C25_CircleInscribedInBox ==
    f_pc = "returned" =>
        /\ EvenlySpaced
        /\ AtMidHeight
        /\ RoundBoxCentre
        /\ InsideBox

(***************************************************************************)
(* The predictive damping of one navigation tick for a fleet in which an    *)
(* agent can conflict with several others: the agents are on a line, half a *)
(* metre apart or more, with velocities get_control can return.            *)
(***************************************************************************)
DampPoints == {<<x * (Scale \div 2), 0, 0>> : x \in 0..DampSpan}

DampVels == {VZero, <<Scale, 0, 0>>, <<-Scale, 0, 0>>}

InitDamping ==
    /\ AssignOff
    /\ SamplerOff
    /\ goal_len = -1
    /\ MissionOff
    /\ NavLoopOff
    /\ SessionOff
    /\ CircleOff
    /\ poses \in [1..DampAgents -> DampPoints]
    /\ goals = <<>>
    /\ params \in ParamSets
    /\ pushes = <<>>
    /\ control_vels \in [1..DampAgents -> DampVels]
    /\ sent_vels = <<>>
    /\ nav_pc = "controlled"

NextDamping == ClipDampDispatch

SpecDamping == InitDamping /\ [][NextDamping]_vars

(***************************************************************************)
(* Properties of the predictive damping.                                   *)
(***************************************************************************)
\* the agents predicted nearer than the threshold to agent i in the plane, from the
\* clipped velocities
Partners(i) ==
    LET clipped == ClipVels(control_vels, params.max_vel)
        thr == ConflictThreshold(params)
    IN  {j \in DOMAIN poses : j # i /\
            DistXY2(VAdd(poses[i], VMulDiv(clipped[i], NavDt, Scale)),
                    VAdd(poses[j], VMulDiv(clipped[j], NavDt, Scale))) < thr * thr}

\* C30: in one navigation tick the dispatched velocity of an agent is half its
\* clipped velocity if the agent is in one conflicting pair or in several, and its
\* clipped velocity as it is if the agent is in none.
C30_DampedOnce ==
    nav_pc = "sent" =>
        \A i \in DOMAIN sent_vels :
            LET clipped == ClipVels(control_vels, params.max_vel)[i]
            IN  IF Partners(i) = {}
                THEN sent_vels[i] = clipped
                ELSE sent_vels[i] = VMulDiv(clipped, 1, 2)

\* a tick was dispatched in which a moving agent conflicts with two others and
\* another moving agent with exactly one
C30_Witness ==
    /\ nav_pc = "sent"
    /\ \E i, k \in DOMAIN sent_vels :
          /\ Cardinality(Partners(i)) >= 2
          /\ control_vels[i] # VZero
          /\ sent_vels[i] = VMulDiv(control_vels[i], 1, 2)
          /\ sent_vels[i] # VMulDiv(control_vels[i], 1, 4)
          /\ Cardinality(Partners(k)) = 1
          /\ control_vels[k] # VZero

====
